---------------------------- MODULE Spec2Model ----------------------------
(***************************************************************************)
(* A model of paip/logic.py: the term classes (Atom, Var, Relation,        *)
(* Clause), the clause Database, unify, Var.lookup / bind_vars, and the    *)
(* backtracking prover (prove_all, prove, display_bindings, prolog_prove). *)
(*                                                                         *)
(* Python values are modelled as records tagged by "kind".  A dict of      *)
(* bindings is a TLA+ function from variable names to terms; the value a   *)
(* function returns is Dict(m), FalseV (Python False), NoneV (Python None) *)
(* or Raised (an exception left the function).                             *)
(***************************************************************************)
EXTENDS Integers, Sequences, FiniteSets, TLC

VARIABLES
    clauses,   \* Database.clauses of the session's database
    counter,   \* Var.counter
    stack,     \* the active calls of prove, innermost last
    ret,       \* the value the call that just ended returned (Pending: none)
    pc,        \* where the top-level caller is
    result,    \* what the top-level call returned
    goals,     \* the goals the caller poses
    shown,     \* the calls of display_bindings so far: values printed, answer
    finished,  \* the call of prove that ended last: its trials and its result
    dbop,      \* the last Database operation called on its own
    uin,       \* inputs of a call of unify, lookup or bind_vars on its own
    uout       \* what that call returned

vars == <<clauses, counter, stack, ret, pc, result, goals, shown, finished,
          dbop, uin, uout>>

engineVars == <<clauses, counter, stack, ret, pc, result, goals, shown, finished>>

-----------------------------------------------------------------------------
(* Bounds *)

\* Deepest Python call chain before the interpreter raises RuntimeError.
RecursionLimit == 12
\* Largest value Var.counter may reach before the search is cut off.
MaxCounter == 12

-----------------------------------------------------------------------------
(* Terms *)

Atom(a) == [kind |-> "Atom", atom |-> a]
Var(n) == [kind |-> "Var", var |-> n]
Relation(p, as) == [kind |-> "Relation", pred |-> p, args |-> as]
Clause(h, b) == [kind |-> "Clause", head |-> h, body |-> b]

NoneV == [kind |-> "None"]
FalseV == [kind |-> "False"]
Raised == [kind |-> "RuntimeError"]
Dict(m) == [kind |-> "dict", map |-> m]
Pending == [kind |-> "pending"]
Idle == [op |-> "none"]
EmptyMap == <<>>

Range(s) == {s[i] : i \in DOMAIN s}

\* Python truth value of what unify / prove_all return: False and {} are falsy.
Truthy(v) == v.kind = "dict" /\ DOMAIN v.map # {}

\* `t in bindings`: only a Var can be a key (Atom and Relation hash by identity).
InBindings(t, bindings) == t.kind = "Var" /\ t.var \in DOMAIN bindings

\* Var.get_unused_var: the name made from the counter.
get_unused_var(n) == Var("var" \o ToString(n))

\* vars.extend(v for v in new if v not in vars)
RECURSIVE ExtendUnique(_, _)
ExtendUnique(vs, new) ==
    IF new = <<>> THEN vs
    ELSE ExtendUnique(IF Head(new) \in Range(vs) THEN vs ELSE Append(vs, Head(new)),
                      Tail(new))

RECURSIVE get_vars(_)
RECURSIVE get_vars_seq(_, _)
get_vars_seq(ts, acc) ==
    IF ts = <<>> THEN acc
    ELSE get_vars_seq(Tail(ts), ExtendUnique(acc, get_vars(Head(ts))))

get_vars(t) ==
    CASE t.kind = "Atom" -> <<>>
      [] t.kind = "Var" -> <<t>>
      [] t.kind = "Relation" -> get_vars_seq(t.args, <<>>)
      [] t.kind = "Clause" -> get_vars_seq(t.body, get_vars(t.head))

RECURSIVE rename_vars(_, _)
rename_vars(t, replacements) ==
    CASE t.kind = "Atom" -> t
      [] t.kind = "Var" ->
            IF t.var \in DOMAIN replacements THEN replacements[t.var] ELSE t
      [] t.kind = "Relation" ->
            Relation(t.pred, [i \in DOMAIN t.args |-> rename_vars(t.args[i], replacements)])
      [] t.kind = "Clause" ->
            Clause(rename_vars(t.head, replacements),
                   [i \in DOMAIN t.body |-> rename_vars(t.body[i], replacements)])

\* Clause.recursive_rename: the renamed clause and the counter afterwards.
recursive_rename(clause, n) ==
    LET vs == get_vars(clause)
        renames == [name \in {vs[i].var : i \in DOMAIN vs} |->
                       get_unused_var(n + (CHOOSE i \in DOMAIN vs : vs[i].var = name) - 1)]
    IN [clause |-> rename_vars(clause, renames), counter |-> n + Len(vs)]


-----------------------------------------------------------------------------
(* Unification *)

\* `bindings = dict(bindings)` (logic.py:51): unify works on a copy, so what the
\* caller's dict holds after the call is what it held before, whatever the
\* callee wrote into its own dict (local).
CallerDictAliased(before, local) == local
CallerDict(before, local) == before

\* `bindings[x] = y` (logic.py:69)
Bind(bindings, x, y) == (x.var :> y) @@ bindings

\* unify returns [ret, local]: ret is the returned value, local is what the
\* dict made at logic.py:51 holds when the call ends.
RECURSIVE unify_dict(_, _, _, _)
RECURSIVE unify_each(_, _, _, _, _)

\* `if isinstance(y, Var): return unify(y, x, bindings)` (logic.py:71-72)
unify_swapped_missing(x, y, bindings, depth) == [ret |-> FalseV, local |-> bindings]
unify_swapped(x, y, bindings, depth) ==
    LET r == unify_dict(y, x, bindings, depth + 1)
    IN [ret |-> r.ret, local |-> CallerDict(bindings, r.local)]

\* The Var branch (logic.py:61-70), without the dereferencing of bound variables.
unify_var_no_deref(x, y, bindings, depth) ==
    LET e == Bind(bindings, x, y) IN [ret |-> Dict(e), local |-> e]
unify_var(x, y, bindings, depth) ==
    IF InBindings(x, bindings)
    THEN LET r == unify_dict(bindings[x.var], y, bindings, depth + 1)
         IN [ret |-> r.ret, local |-> CallerDict(bindings, r.local)]
    ELSE IF InBindings(y, bindings)
    THEN LET r == unify_dict(x, bindings[y.var], bindings, depth + 1)
         IN [ret |-> r.ret, local |-> CallerDict(bindings, r.local)]
    ELSE LET e == Bind(bindings, x, y) IN [ret |-> Dict(e), local |-> e]

\* The loops `for i, xi in enumerate(...)` (logic.py:83-89 and 98-106): cur is
\* the dict the name `bindings` refers to, local the dict made at line 51.
unify_each(xs, ys, i, cur, st) ==
    IF i > Len(xs) THEN [ret |-> Dict(cur), local |-> st.local]
    ELSE LET r == unify_dict(xs[i], ys[i], cur, st.depth + 1)
             after == CallerDict(st.local, r.local)
         IN IF r.ret.kind # "dict" THEN [ret |-> r.ret, local |-> after]
            ELSE unify_each(xs, ys, i + 1, r.ret.map, [st EXCEPT !.local = after])

unify_dict(x, y, bindings, depth) ==
    IF depth > RecursionLimit THEN [ret |-> Raised, local |-> bindings]
    ELSE IF x = y THEN [ret |-> Dict(bindings), local |-> bindings]
    ELSE IF x.kind = "Var" THEN unify_var(x, y, bindings, depth)
    ELSE IF y.kind = "Var" THEN unify_swapped(x, y, bindings, depth)
    ELSE IF x.kind = "Relation" /\ y.kind = "Relation"
    THEN IF x.pred # y.pred \/ Len(x.args) # Len(y.args)
         THEN [ret |-> FalseV, local |-> bindings]
         ELSE unify_each(x.args, y.args, 1, bindings, [local |-> bindings, depth |-> depth])
    ELSE IF x.kind = "Clause" /\ y.kind = "Clause"
    THEN IF Len(x.body) # Len(y.body)
         THEN [ret |-> FalseV, local |-> bindings]
         ELSE unify_each(<<x.head>> \o x.body, <<y.head>> \o y.body, 1, bindings,
                         [local |-> bindings, depth |-> depth])
    ELSE [ret |-> FalseV, local |-> bindings]

\* unify(x, y, bindings) for any value of bindings: [ret, arg], where arg is what
\* the caller's dict holds after the call.
unify(x, y, bindings) ==
    IF bindings.kind # "dict" THEN [ret |-> FalseV, arg |-> bindings]
    ELSE LET r == unify_dict(x, y, bindings.map, 1)
         IN [ret |-> r.ret, arg |-> Dict(CallerDict(bindings.map, r.local))]

-----------------------------------------------------------------------------
(* Dereferencing *)

\* The while loop of Var.lookup (logic.py:170-175).
RECURSIVE follow(_, _, _)
follow(binding, encountered, bindings) ==
    IF /\ binding.kind = "Var"
       /\ binding.var \in DOMAIN bindings
       /\ bindings[binding.var] \notin Range(encountered)
    THEN follow(bindings[binding.var], Append(encountered, bindings[binding.var]), bindings)
    ELSE binding

RECURSIVE lookup(_, _, _)
RECURSIVE bind_vars(_, _, _)

\* Relation.bind_vars
bind_vars(rel, bindings, depth) ==
    IF depth > RecursionLimit THEN Raised
    ELSE LET bound == [i \in DOMAIN rel.args |->
                          IF InBindings(rel.args[i], bindings)
                          THEN lookup(rel.args[i], bindings, depth + 1)
                          ELSE rel.args[i]]
         IN IF \E i \in DOMAIN bound : bound[i] = Raised THEN Raised
            ELSE Relation(rel.pred, bound)

\* Var.lookup
lookup(self, bindings, depth) ==
    IF depth > RecursionLimit THEN Raised
    ELSE LET first == IF self.var \in DOMAIN bindings THEN bindings[self.var] ELSE NoneV
             binding == follow(first, <<self, first>>, bindings)
         IN IF binding.kind = "Relation" THEN bind_vars(binding, bindings, depth + 1)
            ELSE binding

\* Clause.bind_vars
Clause_bind_vars(clause, bindings) ==
    LET head == bind_vars(clause.head, bindings, 1)
        body == [i \in DOMAIN clause.body |-> bind_vars(clause.body[i], bindings, 1)]
    IN IF head = Raised \/ \E i \in DOMAIN body : body[i] = Raised THEN Raised
       ELSE Clause(head, body)


-----------------------------------------------------------------------------
(* Database *)

AttributeError == [kind |-> "AttributeError"]
ListEntry(items) == [kind |-> "list", items |-> items]
FunctionEntry(fn) == [kind |-> "function", name |-> fn]

\* self.clauses.setdefault(pred, [])
setdefault(db, pred) == IF pred \in DOMAIN db THEN db ELSE (pred :> ListEntry(<<>>)) @@ db

\* Database.store: the dict afterwards and Raised-like value when append fails.
store(db, clause) ==
    LET pred == clause.head.pred
        d == setdefault(db, pred)
    IN IF d[pred].kind = "list"
       THEN [db |-> [d EXCEPT ![pred] = ListEntry(Append(@.items, clause))], ret |-> NoneV]
       ELSE [db |-> d, ret |-> AttributeError]

\* Database.define_primitive
define_primitive(db, name, fn) == (name :> FunctionEntry(fn)) @@ db

\* Database.query: the dict afterwards and the entry returned.
query(db, pred) ==
    LET d == setdefault(db, pred) IN [db |-> d, ret |-> d[pred]]

\* Database.__init__
RECURSIVE store_all(_, _)
store_all(db, cs) == IF cs = <<>> THEN db ELSE store_all(store(db, Head(cs)).db, Tail(cs))

Database(facts, rules) == store_all(EmptyMap, facts \o rules)

-----------------------------------------------------------------------------
(* The prover *)

\* What raw_input('Continue? ') can do: return a line, or raise.
Line(text) == [kind |-> "line", text |-> text]
EOFError == [kind |-> "EOFError"]
Inputs == {Line("yes"), Line(" Y "), Line("no"), Line(""), EOFError}

\* .strip().lower() on the lines above
strip_lower(text) == IF text = " Y " THEN "y" ELSE text

\* should_continue, with the exception counted as an answer of yes.
should_continue_on_error(input) ==
    IF input.kind = "EOFError" THEN TRUE ELSE strip_lower(input.text) \in {"yes", "y"}
should_continue(input) ==
    IF input.kind = "EOFError" THEN FALSE ELSE strip_lower(input.text) \in {"yes", "y"}

\* A call of prove: its arguments, the dict the caller passed as it was at the
\* call (entry) and as it is now (bindings), the clause list fetched, the index
\* of the candidate at hand, and a record of the candidates tried so far.
Frame(goal, bindings, remaining) ==
    [goal |-> goal, bindings |-> bindings, entry |-> bindings, remaining |-> remaining,
     at |-> "enter", query |-> <<>>, idx |-> 0, log |-> <<>>]

Top == stack[Len(stack)]
Below == SubSeq(stack, 1, Len(stack) - 1)
SetTop(f) == [stack EXCEPT ![Len(stack)] = f]

\* prove_all(goals, bindings, db) called with the calls in stk active: either it
\* returns at once (ret) or it calls prove (a new frame).
prove_all(stk, gs, bindings) ==
    IF bindings.kind # "dict" THEN [stack |-> stk, ret |-> FalseV]
    ELSE IF gs = <<>> THEN [stack |-> stk, ret |-> bindings]
    ELSE [stack |-> Append(stk, Frame(gs[1], bindings, Tail(gs))), ret |-> Pending]

Running == pc \in {"prove", "prolog_prove"}

\* The caller calls prove(goal, {}, db, []).
CallProve ==
    /\ pc = "idle" /\ goals # <<>>
    /\ pc' = "prove"
    /\ stack' = <<Frame(goals[1], Dict(EmptyMap), <<>>)>>
    /\ UNCHANGED <<clauses, counter, ret, result, goals, shown, finished, dbop, uin, uout>>

RECURSIVE concat_vars(_)
concat_vars(gs) == IF gs = <<>> THEN <<>> ELSE get_vars(Head(gs)) \o concat_vars(Tail(gs))

\* prolog_prove up to its call of prove_all (logic.py:368-373).
CallPrologProve ==
    /\ pc = "idle"
    /\ IF goals = <<>>
       THEN /\ pc' = "done_prolog_prove"
            /\ UNCHANGED <<clauses, stack, ret>>
       ELSE LET call == prove_all(<<>>,
                            Append(goals, Relation("display_bindings", concat_vars(goals))),
                            Dict(EmptyMap))
            IN /\ pc' = "prolog_prove"
               /\ clauses' = define_primitive(clauses, "display_bindings", "display_bindings")
               /\ stack' = call.stack
               /\ ret' = call.ret
    /\ UNCHANGED <<counter, result, goals, shown, finished, dbop, uin, uout>>

\* prove from its entry to the loop over the candidates (logic.py:294-313),
\* for a predicate that holds no primitive.
ProveEnter ==
    /\ Running /\ stack # <<>> /\ ret = Pending /\ Top.at = "enter"
    /\ LET q == query(clauses, Top.goal.pred)
       IN /\ q.ret.kind = "list"
          /\ clauses' = q.db
          /\ IF q.ret.items = <<>>
             THEN /\ stack' = Below
                  /\ ret' = FalseV
                  /\ finished' = [op |-> "prove", goal |-> Top.goal, entry |-> Top.entry,
                                  query |-> <<>>, log |-> <<>>, ret |-> FalseV]
             ELSE /\ stack' = SetTop([Top EXCEPT !.at = "loop", !.query = q.ret.items, !.idx = 1])
                  /\ UNCHANGED <<ret, finished>>
    /\ UNCHANGED <<counter, pc, result, goals, shown, dbop, uin, uout>>

\* prove finds a primitive (logic.py:308-311), which is display_bindings
\* (logic.py:349-356).
DisplayBindings ==
    /\ Running /\ stack # <<>> /\ ret = Pending /\ Top.at = "enter"
    /\ LET q == query(clauses, Top.goal.pred)
           vs == Top.goal.args
           values == [i \in DOMAIN vs |-> lookup(vs[i], Top.bindings.map, 1)]
       IN /\ q.ret.kind = "function"
          /\ clauses' = q.db
          /\ IF \E i \in DOMAIN values : values[i] = Raised
             THEN /\ pc' = "crashed"
                  /\ stack' = <<>>
                  /\ UNCHANGED <<ret, shown>>
             ELSE \E input \in Inputs :
                    LET call == IF should_continue(input)
                                THEN [stack |-> Below, ret |-> FalseV]
                                ELSE prove_all(Below, Top.remaining, Top.bindings)
                    IN /\ shown' = Append(shown, [values |-> values, bindings |-> Top.bindings,
                                                  input |-> input, returned |-> call.ret])
                       /\ pc' = pc
                       /\ stack' = call.stack
                       /\ ret' = call.ret
    /\ UNCHANGED <<counter, result, goals, finished, dbop, uin, uout>>

\* One turn of the loop over the candidates, up to the call of prove_all
\* (logic.py:314-336).
TryCandidate ==
    /\ Running /\ stack # <<>> /\ ret = Pending /\ Top.at = "loop"
    /\ Top.idx <= Len(Top.query)
    /\ LET clause == Top.query[Top.idx]
           rn == recursive_rename(clause, counter)
           renamed == rn.clause
           u == unify(Top.goal, renamed.head, Top.bindings)
           unified == u.ret
           bound == IF Truthy(unified) THEN Clause_bind_vars(renamed, unified.map) ELSE renamed
           guard == Truthy(unified) /\ bound # Raised /\ bound.head \in Range(bound.body)
           trial == [idx |-> Top.idx, clause |-> clause, renamed |-> renamed,
                     counter |-> counter, passed |-> Top.bindings, unified |-> unified,
                     guard |-> guard, extended |-> Pending]
           top == [Top EXCEPT !.bindings = u.arg, !.log = Append(@, trial)]
       IN /\ rn.counter <= MaxCounter
          /\ counter' = rn.counter
          /\ IF unified = Raised \/ bound = Raised
             THEN /\ pc' = "crashed"
                  /\ stack' = <<>>
                  /\ UNCHANGED <<ret, finished>>
             ELSE IF ~Truthy(unified) \/ guard
             THEN /\ stack' = SetTop([top EXCEPT !.idx = @ + 1])
                  /\ UNCHANGED <<pc, ret, finished>>
             ELSE LET waiting == [top EXCEPT !.at = "wait"]
                      call == prove_all(Append(Below, waiting),
                                        bound.body \o Top.remaining, unified)
                      ended == [top EXCEPT !.log[Len(top.log)].extended = call.ret]
                  IN /\ pc' = pc
                     /\ IF call.ret = Pending
                        THEN /\ stack' = call.stack
                             /\ UNCHANGED <<ret, finished>>
                        ELSE IF ~Truthy(call.ret)
                        THEN /\ stack' = SetTop([ended EXCEPT !.idx = @ + 1])
                             /\ UNCHANGED <<ret, finished>>
                        ELSE /\ stack' = Below
                             /\ ret' = call.ret
                             /\ finished' = [op |-> "prove", goal |-> Top.goal,
                                             entry |-> Top.entry, query |-> Top.query,
                                             log |-> ended.log, ret |-> call.ret]
    /\ UNCHANGED <<clauses, result, goals, shown, dbop, uin, uout>>

\* prove_all has returned to the loop: `extended` is known (logic.py:336-343).
Resume ==
    /\ Running /\ stack # <<>> /\ Top.at = "wait"
    /\ ret # Pending
    /\ LET top == [Top EXCEPT !.log[Len(Top.log)].extended = ret]
       IN IF ~Truthy(ret)
          THEN /\ stack' = SetTop([top EXCEPT !.at = "loop", !.idx = @ + 1])
               /\ ret' = Pending
               /\ UNCHANGED finished
          ELSE /\ stack' = Below
               /\ ret' = ret
               /\ finished' = [op |-> "prove", goal |-> top.goal, entry |-> top.entry,
                               query |-> top.query, log |-> top.log, ret |-> ret]
    /\ UNCHANGED <<clauses, counter, pc, result, goals, shown, dbop, uin, uout>>

\* The candidates are exhausted (logic.py:345-346).
ProveFails ==
    /\ Running /\ stack # <<>> /\ ret = Pending /\ Top.at = "loop"
    /\ Top.idx > Len(Top.query)
    /\ stack' = Below
    /\ ret' = FalseV
    /\ finished' = [op |-> "prove", goal |-> Top.goal, entry |-> Top.entry,
                    query |-> Top.query, log |-> Top.log, ret |-> FalseV]
    /\ UNCHANGED <<clauses, counter, pc, result, goals, shown, dbop, uin, uout>>

\* The outermost call returns to the caller (prolog_prove then prints 'No.').
Return ==
    /\ Running /\ stack = <<>> /\ ret # Pending
    /\ result' = ret
    /\ pc' = IF pc = "prove" THEN "done_prove" ELSE "done_prolog_prove"
    /\ UNCHANGED <<clauses, counter, stack, ret, goals, shown, finished, dbop, uin, uout>>

\* The sessions checked: the clauses the caller stores, in order, and the goals.
Session(facts, rules, gs) == [facts |-> facts, rules |-> rules, goals |-> gs]

A(a) == Atom(a)
V(n) == Var(n)
Fact(p, as) == Clause(Relation(p, as), <<>>)

\* paip/examples/logic/transitive.py, with one fact less.
Likes ==
    Session(<<Fact("likes", <<A("Kim"), A("Robin")>>),
              Fact("likes", <<A("Sandy"), A("Lee")>>),
              Fact("likes", <<A("Sandy"), A("Kim")>>),
              Fact("likes", <<A("Robin"), A("cats")>>)>>,
            <<Fact("likes", <<V("x"), V("x")>>),
              Clause(Relation("likes", <<V("x"), V("y")>>),
                     <<Relation("likes", <<V("x"), V("z")>>),
                       Relation("likes", <<V("z"), V("y")>>)>>)>>,
            <<Relation("likes", <<A("Sandy"), V("who")>>)>>)

\* A ground goal that is a stored fact.
Ground ==
    Session(<<Fact("p", <<A("a")>>), Fact("p", <<A("a")>>)>>, <<>>,
            <<Relation("p", <<A("a")>>)>>)

\* The first candidate binds w and then fails; a rule that is its own body; a
\* rule over a predicate nothing is stored for.
Branches ==
    Session(<<Fact("p", <<A("a"), A("c")>>), Fact("p", <<A("b"), A("b")>>)>>,
            <<Clause(Relation("p", <<V("x"), V("y")>>), <<Relation("p", <<V("x"), V("y")>>)>>),
              Clause(Relation("p", <<V("x"), V("y")>>), <<Relation("s", <<V("x")>>)>>),
              Fact("p", <<V("x"), V("x")>>)>>,
            <<Relation("p", <<V("w"), A("b")>>)>>)

\* Two goals: the first candidate of the first goal fails on the second goal.
TwoGoals ==
    Session(<<Fact("q", <<A("a")>>), Fact("q", <<A("b")>>), Fact("q", <<A("c")>>),
              Fact("r", <<A("b")>>), Fact("r", <<A("c")>>)>>, <<>>,
            <<Relation("q", <<V("w")>>), Relation("r", <<V("w")>>)>>)

\* A caller whose variables are named like the generated ones.
Named ==
    Session(<<Fact("r", <<V("x"), V("y")>>)>>, <<>>,
            <<Relation("r", <<V("var1"), V("var0")>>)>>)

\* Relations inside relations.
Nested ==
    Session(<<Fact("p", <<Relation("f", <<V("x")>>), V("x")>>)>>,
            <<Clause(Relation("n", <<V("x")>>),
                     <<Relation("p", <<Relation("f", <<A("a")>>), V("x")>>)>>)>>,
            <<Relation("n", <<V("w")>>)>>)

NoGoals == Session(<<Fact("p", <<A("a")>>)>>, <<>>, <<>>)

Sessions == {Likes, Ground, Branches, TwoGoals, Named, Nested, NoGoals}

Init ==
    /\ \E session \in Sessions :
          /\ clauses = Database(session.facts, session.rules)
          /\ goals = session.goals
    /\ counter = 0
    /\ stack = <<>>
    /\ ret = Pending
    /\ pc = "idle"
    /\ result = NoneV
    /\ shown = <<>>
    /\ finished = Idle
    /\ dbop = Idle
    /\ uin = Idle
    /\ uout = Idle

Next ==
    \/ CallProve
    \/ CallPrologProve
    \/ ProveEnter
    \/ DisplayBindings
    \/ TryCandidate
    \/ Resume
    \/ ProveFails
    \/ Return

Spec == Init /\ [][Next]_vars

-----------------------------------------------------------------------------
(* The unifier and the dereferencing functions, called on their own *)

UAtoms == {Atom("a"), Atom("b")}
UVarNames == {"x", "y", "z"}
UVars == {Var(n) : n \in UVarNames}
Shallow == UAtoms \cup UVars
PArgs == UVars \cup {Atom("a")}

URelations ==
    {Relation("f", <<t>>) : t \in Shallow}
    \cup {Relation("p", <<s, t>>) : s, t \in PArgs}
    \cup {Relation("g", <<Relation("f", <<t>>)>>) : t \in UVars}
    \cup {Relation("p", <<Atom("a")>>)}

UClauses ==
    {Clause(Relation("f", <<Var("x")>>), <<Relation("f", <<Var("y")>>)>>),
     Clause(Relation("f", <<Atom("a")>>), <<Relation("f", <<Var("z")>>)>>),
     Clause(Relation("f", <<Var("x")>>), <<>>)}

UTerms == Shallow \cup URelations \cup UClauses

UEnvRange ==
    Shallow \cup {Relation("f", <<t>>) : t \in {Var("x"), Var("y"), Atom("a")}}
            \cup {Relation("g", <<Relation("f", <<Var("y")>>)>>)}

\* The dicts a caller can build over the variable names, at most two keys each.
UEnvMaps ==
    {EmptyMap}
    \cup UNION {[{n} -> UEnvRange] : n \in UVarNames}
    \cup UNION {[{n, m} -> UEnvRange] : n, m \in UVarNames}

UEnvs == {Dict(m) : m \in UEnvMaps} \cup {FalseV}

InitEngineIdle ==
    /\ clauses = EmptyMap
    /\ counter = 0
    /\ stack = <<>>
    /\ ret = Pending
    /\ pc = "off"
    /\ result = NoneV
    /\ goals = <<>>
    /\ shown = <<>>
    /\ finished = Idle

InitU ==
    /\ InitEngineIdle
    /\ dbop = Idle
    /\ uout = Idle
    /\ \/ \E x \in UTerms, y \in UTerms, e \in UEnvs :
             uin = [op |-> "unify", x |-> x, y |-> y, env |-> e]
       \/ \E x \in UVars, e \in UEnvs \ {FalseV} :
             uin = [op |-> "lookup", x |-> x, y |-> x, env |-> e]
       \/ \E x \in URelations, e \in UEnvs \ {FalseV} :
             uin = [op |-> "bind_vars", x |-> x, y |-> x, env |-> e]

\* unify(x, y, env) and unify(y, x, env), each on the same caller's dict.
CallUnify ==
    /\ uin.op = "unify" /\ uout = Idle
    /\ uout' = [op |-> "unify",
                fwd |-> unify(uin.x, uin.y, uin.env),
                bwd |-> unify(uin.y, uin.x, uin.env)]
    /\ UNCHANGED <<uin, dbop, engineVars>>

\* x.lookup(env)
CallLookup ==
    /\ uin.op = "lookup" /\ uout = Idle
    /\ uout' = [op |-> "lookup", val |-> lookup(uin.x, uin.env.map, 1)]
    /\ UNCHANGED <<uin, dbop, engineVars>>

\* x.bind_vars(env)
CallBindVars ==
    /\ uin.op = "bind_vars" /\ uout = Idle
    /\ uout' = [op |-> "bind_vars", val |-> bind_vars(uin.x, uin.env.map, 1)]
    /\ UNCHANGED <<uin, dbop, engineVars>>

NextU == CallUnify \/ CallLookup \/ CallBindVars

SpecU == InitU /\ [][NextU]_vars


-----------------------------------------------------------------------------
(* The Database, called on its own *)

\* Most clauses a session stores.
MaxStored == 3

DbClauses ==
    {Fact("p", <<A("a")>>), Fact("p", <<A("b")>>), Fact("q", <<A("a")>>),
     Clause(Relation("q", <<V("x")>>), <<Relation("p", <<V("x")>>)>>)}
DbNames == {"p", "q", "r"}
DbFunctions == {"display_bindings", "echo"}

Stored(db) ==
    LET lists == {n \in DOMAIN db : db[n].kind = "list"}
        RECURSIVE total(_)
        total(S) == IF S = {} THEN 0
                    ELSE LET n == CHOOSE n \in S : TRUE IN Len(db[n].items) + total(S \ {n})
    IN total(lists)

InitDb ==
    /\ InitEngineIdle
    /\ uin = Idle
    /\ uout = Idle
    /\ dbop = Idle

Store ==
    \E c \in DbClauses :
        /\ Stored(clauses) < MaxStored
        /\ clauses' = store(clauses, c).db
        /\ dbop' = [op |-> "store", clause |-> c, before |-> clauses,
                    ret |-> store(clauses, c).ret]
        /\ UNCHANGED <<counter, stack, ret, pc, result, goals, shown, finished, uin, uout>>

DefinePrimitive ==
    \E n \in DbNames, fn \in DbFunctions :
        /\ clauses' = define_primitive(clauses, n, fn)
        /\ dbop' = [op |-> "define_primitive", name |-> n, fn |-> fn, before |-> clauses,
                    ret |-> NoneV]
        /\ UNCHANGED <<counter, stack, ret, pc, result, goals, shown, finished, uin, uout>>

Query ==
    \E n \in DbNames :
        /\ clauses' = query(clauses, n).db
        /\ dbop' = [op |-> "query", name |-> n, before |-> clauses,
                    ret |-> query(clauses, n).ret]
        /\ UNCHANGED <<counter, stack, ret, pc, result, goals, shown, finished, uin, uout>>

NextDb == Store \/ DefinePrimitive \/ Query

SpecDb == InitDb /\ [][NextDb]_vars

-----------------------------------------------------------------------------
(* Vocabulary of the properties *)

Names(t) == {v.var : v \in Range(get_vars(t))}

\* The names reachable from the names in S along bindings: n leads to every
\* variable of the term n is bound to.
RECURSIVE ReachFrom(_, _, _)
ReachFrom(m, S, k) ==
    IF k = 0 THEN S
    ELSE ReachFrom(m, S \cup UNION {Names(m[n]) : n \in S \cap DOMAIN m}, k - 1)

Reach(m, n) ==
    IF n \in DOMAIN m THEN ReachFrom(m, Names(m[n]), Cardinality(DOMAIN m)) ELSE {}

\* No variable is bound, directly or through other bindings, to a term that
\* contains it.
Acyclic(m) == \A n \in DOMAIN m : n \notin Reach(m, n)

\* The same along variable-to-variable bindings only.
RECURSIVE VarReachFrom(_, _, _)
VarReachFrom(m, S, k) ==
    IF k = 0 THEN S
    ELSE VarReachFrom(m, S \cup {m[n].var : n \in {n1 \in S \cap DOMAIN m : m[n1].kind = "Var"}},
                      k - 1)

VarChainAcyclic(m) ==
    \A n \in DOMAIN m :
        m[n].kind = "Var" => n \notin VarReachFrom(m, {m[n].var}, Cardinality(DOMAIN m))

\* One simultaneous substitution of the bindings into a term, at every depth.
RECURSIVE Subst1(_, _)
Subst1(t, m) ==
    CASE t.kind = "Var" -> IF t.var \in DOMAIN m THEN m[t.var] ELSE t
      [] t.kind = "Relation" -> Relation(t.pred, [i \in DOMAIN t.args |-> Subst1(t.args[i], m)])
      [] t.kind = "Clause" ->
            Clause(Subst1(t.head, m), [i \in DOMAIN t.body |-> Subst1(t.body[i], m)])
      [] OTHER -> t

RECURSIVE SubstK(_, _, _)
SubstK(t, m, k) == IF k = 0 THEN t ELSE SubstK(Subst1(t, m), m, k - 1)

\* The full substitution: every chain of an acyclic dict is exhausted after as
\* many rounds as the dict has keys.
FullSubst(t, m) == SubstK(t, m, Cardinality(DOMAIN m))

Extends(new, old) ==
    /\ DOMAIN old \subseteq DOMAIN new
    /\ \A n \in DOMAIN old : new[n] = old[n]

UnifyDone == uout.op = "unify"

-----------------------------------------------------------------------------
(* C3 *)

\* C3 as stated: unify(x, y, env) and unify(y, x, env) both fail, or both succeed
\* with dicts that are equal as mappings.
C3_SymmetricEnvs ==
    UnifyDone =>
        \/ uout.fwd.ret.kind # "dict" /\ uout.bwd.ret.kind # "dict"
        \/ /\ uout.fwd.ret.kind = "dict" /\ uout.bwd.ret.kind = "dict"
           /\ uout.fwd.ret.map = uout.bwd.ret.map

NewVarBinding(new, old) == \E n \in DOMAIN new \ DOMAIN old : new[n].kind = "Var"

\* C3 amended: for an env without a variable-to-variable binding cycle (and for
\* the failed env) unify(x, y, env) and unify(y, x, env) end the same way: both
\* return a dict, both return False, or both recurse until the interpreter
\* stops them; and the two dicts are equal as mappings unless one of the calls
\* bound a variable to another variable.
C3_SymmetricOutcome ==
    (UnifyDone /\ (uin.env.kind = "dict" => VarChainAcyclic(uin.env.map))) =>
        /\ uout.fwd.ret.kind = uout.bwd.ret.kind
        /\ ( /\ uout.fwd.ret.kind = "dict"
             /\ ~NewVarBinding(uout.fwd.ret.map, uin.env.map)
             /\ ~NewVarBinding(uout.bwd.ret.map, uin.env.map) )
           => uout.fwd.ret.map = uout.bwd.ret.map

\* Both orders succeeded on different terms under an env that binds one of their
\* variables, and each added two bindings, none of them to a variable.
C3_Witness ==
    /\ UnifyDone /\ uin.env.kind = "dict" /\ VarChainAcyclic(uin.env.map)
    /\ uin.x # uin.y
    /\ DOMAIN uin.env.map \cap (Names(uin.x) \cup Names(uin.y)) # {}
    /\ uout.fwd.ret.kind = "dict" /\ uout.bwd.ret.kind = "dict"
    /\ ~NewVarBinding(uout.fwd.ret.map, uin.env.map)
    /\ ~NewVarBinding(uout.bwd.ret.map, uin.env.map)
    /\ Cardinality(DOMAIN uout.fwd.ret.map) = Cardinality(DOMAIN uin.env.map) + 2

-----------------------------------------------------------------------------
(* C10 *)

C10_Pre == UnifyDone /\ uin.env.kind = "dict" /\ Acyclic(uin.env.map)

\* C10 as stated: on success the result extends env, has no variable-to-variable
\* cycle, and substituted into x and into y gives equal terms.
C10_Sound ==
    (C10_Pre /\ uout.fwd.ret.kind = "dict") =>
        /\ Extends(uout.fwd.ret.map, uin.env.map)
        /\ VarChainAcyclic(uout.fwd.ret.map)
        /\ FullSubst(uin.x, uout.fwd.ret.map) = FullSubst(uin.y, uout.fwd.ret.map)

\* C10 amended: the substituted terms are equal provided the result binds no
\* variable to a term that contains it (unify makes no occurs check).
C10_SoundWhenAcyclic ==
    (C10_Pre /\ uout.fwd.ret.kind = "dict") =>
        /\ Extends(uout.fwd.ret.map, uin.env.map)
        /\ VarChainAcyclic(uout.fwd.ret.map)
        /\ Acyclic(uout.fwd.ret.map) =>
              FullSubst(uin.x, uout.fwd.ret.map) = FullSubst(uin.y, uout.fwd.ret.map)

\* unify succeeded on different terms under an env that binds one of their
\* variables, and added two bindings.
C10_Witness ==
    /\ C10_Pre /\ uout.fwd.ret.kind = "dict"
    /\ DOMAIN uin.env.map \cap (Names(uin.x) \cup Names(uin.y)) # {}
    /\ Cardinality(DOMAIN uout.fwd.ret.map) = Cardinality(DOMAIN uin.env.map) + 2
    /\ Acyclic(uout.fwd.ret.map)
    /\ uin.x # uin.y

-----------------------------------------------------------------------------
(* C7 *)

\* C7: what lookup and bind_vars return for a dict without cycles holds no
\* variable that the dict binds, at any depth.
C7_FullyDereferenced ==
    (uout.op \in {"lookup", "bind_vars"} /\ Acyclic(uin.env.map) /\ uout.val.kind = "Relation")
        => Names(uout.val) \cap DOMAIN uin.env.map = {}

-----------------------------------------------------------------------------
(* C9 *)

\* C9: lookup returns, whatever cycle the dict holds.
C9_LookupTerminates ==
    uout.op = "lookup" => uout.val # Raised


-----------------------------------------------------------------------------
(* C6 *)

ItemsUnder(db, name) ==
    IF name \in DOMAIN db /\ db[name].kind = "list" THEN db[name].items ELSE <<>>

\* C6: store(c) completes and query(c.head.pred) then returns what was stored
\* under the name before, with c appended; define_primitive(name, f) makes
\* query(name) return f.
C6_StoreAppends ==
    /\ dbop.op = "store" =>
          /\ dbop.ret = NoneV
          /\ query(clauses, dbop.clause.head.pred).ret
                = ListEntry(Append(ItemsUnder(dbop.before, dbop.clause.head.pred), dbop.clause))
    /\ dbop.op = "define_primitive" =>
          query(clauses, dbop.name).ret = FunctionEntry(dbop.fn)

-----------------------------------------------------------------------------
(* C1 *)

\* C1: prove(goal, {}, db, []) for a goal equal to the first stored fact of its
\* predicate, a ground one, returns the empty dict.
C1_EmptySuccess ==
    LET first == ItemsUnder(clauses, goals[1].pred)[1]
    IN ( /\ pc = "done_prove"
         /\ ItemsUnder(clauses, goals[1].pred) # <<>>
         /\ first.body = <<>> /\ get_vars(first) = <<>>
         /\ unify(goals[1], first.head, Dict(EmptyMap)).ret = Dict(EmptyMap) )
       => result = Dict(EmptyMap)

-----------------------------------------------------------------------------
(* C2 *)

\* A candidate failed: the heads did not unify, the loop guard rejected it, or
\* the proof of its body and the remaining goals failed.
Failed(t) == t.unified = FalseV \/ t.guard \/ t.extended = FalseV
Succeeded(t) == t.unified.kind = "dict" /\ ~t.guard /\ t.extended.kind = "dict"
InStoreOrder(log, q) == \A i \in DOMAIN log : log[i].idx = i /\ log[i].clause = q[i]

\* C2: a call of prove tries its candidates in store order, moves on from a
\* candidate only when that candidate failed, returns the result of the first
\* one that succeeds and fails only when all have been tried.
C2_TrialOrder ==
    /\ \A k \in DOMAIN stack :
          stack[k].at \in {"loop", "wait"} =>
              /\ InStoreOrder(stack[k].log, stack[k].query)
              /\ Len(stack[k].log) = (IF stack[k].at = "wait" THEN stack[k].idx
                                      ELSE stack[k].idx - 1)
              /\ \A i \in DOMAIN stack[k].log : i < stack[k].idx => Failed(stack[k].log[i])
    /\ (finished # Idle /\ finished.query # <<>>) =>
          /\ InStoreOrder(finished.log, finished.query)
          /\ \A i \in 1..(Len(finished.log) - 1) : Failed(finished.log[i])
          /\ finished.ret.kind = "dict" =>
                /\ Succeeded(finished.log[Len(finished.log)])
                /\ finished.ret = finished.log[Len(finished.log)].extended
          /\ finished.ret.kind # "dict" =>
                /\ Len(finished.log) = Len(finished.query)
                /\ Failed(finished.log[Len(finished.log)])

-----------------------------------------------------------------------------
(* C4 *)

\* C4: the dict a call of prove was given holds after every call of unify what
\* it held when prove was called, and every candidate is unified under it.
C4_BranchIsolation ==
    /\ \A k \in DOMAIN stack :
          /\ stack[k].bindings = stack[k].entry
          /\ \A i \in DOMAIN stack[k].log : stack[k].log[i].passed = stack[k].entry
    /\ finished # Idle => \A i \in DOMAIN finished.log : finished.log[i].passed = finished.entry

\* A call of prove whose first candidate bound the goal's variable before it
\* failed, and whose second candidate then unified.
C4_Witness ==
    \E k \in DOMAIN stack :
        /\ Len(stack[k].log) >= 2
        /\ stack[k].log[1].unified = FalseV
        /\ unify(stack[k].goal.args[1], stack[k].log[1].renamed.head.args[1],
                 stack[k].entry).ret # stack[k].entry
        /\ unify(stack[k].goal.args[1], stack[k].log[1].renamed.head.args[1],
                 stack[k].entry).ret.kind = "dict"
        /\ Truthy(stack[k].log[2].unified)

-----------------------------------------------------------------------------
(* C5 *)

\* The answers that mean "do not continue": anything but yes or y, and an error.
StopAnswer(input) == input \notin {Line("yes"), Line(" Y ")}

\* C5: display_bindings prints the value of every variable of the goals and
\* asks; after an answer of yes it returns False; after any other answer or an
\* error it is not called again, its bindings are returned through every
\* caller, and prolog_prove ends with them.
C5_Enumeration ==
    /\ \A i \in DOMAIN shown :
          /\ Len(shown[i].values) = Len(concat_vars(goals))
          /\ ~StopAnswer(shown[i].input) => shown[i].returned = FalseV
          /\ StopAnswer(shown[i].input) =>
                /\ i = Len(shown)
                /\ shown[i].returned = shown[i].bindings
                /\ pc = "prolog_prove" => ret = shown[i].bindings
                /\ pc = "done_prolog_prove" => result = shown[i].bindings

\* Two solutions were shown, the second answer was an error, and prolog_prove
\* has ended.
C5_Witness ==
    /\ pc = "done_prolog_prove"
    /\ Len(shown) = 2
    /\ shown[1].values # shown[2].values
    /\ shown[2].input = EOFError

-----------------------------------------------------------------------------
(* C8 *)

Generated(from, n) == {get_unused_var(k).var : k \in from .. (from + n - 1)}
EnvNames(m) == DOMAIN m \cup UNION {Names(m[n]) : n \in DOMAIN m}

\* The variables a trial's renaming made are new: none was made before, none
\* occurs in the goal or in the dict; and the renamed clause is the stored one
\* with its variables replaced one for one.
FreshTrial(t, goal) ==
    LET vs == get_vars(t.clause)
        fresh == Generated(t.counter, Len(vs))
    IN /\ fresh \cap Generated(0, t.counter) = {}
       /\ fresh \cap Names(goal) = {}
       /\ fresh \cap EnvNames(t.passed.map) = {}
       /\ Cardinality(fresh) = Len(vs)
       /\ Names(t.renamed) = fresh
       /\ \E back \in [fresh -> Range(vs)] : rename_vars(t.renamed, back) = t.clause

\* C8: every renaming a call of prove makes is fresh.
C8_RenamedApart ==
    \A k \in DOMAIN stack : \A i \in DOMAIN stack[k].log :
        FreshTrial(stack[k].log[i], stack[k].goal)

=============================================================================
